---- MODULE Spec2Model ----
(***************************************************************************)
(* Model of graph_analysis/graph_creation.py: the Evaluator that fills in  *)
(* the missing columns of a record set and compiles it into a property     *)
(* graph, and the Manager that diffs the edge sets of two Evaluators.      *)
(*                                                                         *)
(* Strings are sequences of one-character strings, so that len(), `in`     *)
(* and split() are computed as Python computes them.                       *)
(***************************************************************************)
EXTENDS Naturals, Sequences, FiniteSets, TLC

VARIABLES
    translator,         \* MDTranslator.data: the schema (json_data)
    df,                 \* Evaluator.df: [columns: physical order, data: column -> cells]
    raw_df,             \* history: df as it was read, before add_missing_columns
    columns_to_create,  \* add_missing_columns: the sorted list of missing columns
    col_idx,            \* add_missing_columns: position in the `for col` loop
    pc,                 \* position of the Evaluator's caller
    prop_di_graph,      \* Evaluator.prop_di_graph
    edge_idx,           \* to_property_di_graph: position in the `for index, pair` loop
    calls,              \* history: completed calls of to_property_di_graph
    first_graph,        \* history: the graph the first completed call produced
    evaluators,         \* Manager.evaluators: the edge set of each, in input order
    hash_order,         \* the order in which list(<set>) lists edges in this process
    policy,             \* how utils.match_changes breaks ties
    mpc,                \* position of the Manager's caller
    eval_one_unmatched, \* get_pattern_graph_diff: its locals at the return
    eval_two_unmatched,
    eval_one_unmatch_pref,
    eval_two_unmatch_pref,
    evaluator_change_dict,  \* the Match Result of the pair
    first_result        \* history: the Match Result in the first input order

evars == <<translator, df, raw_df, columns_to_create, col_idx, pc,
           prop_di_graph, edge_idx, calls, first_graph>>

mvars == <<evaluators, hash_order, policy, mpc, eval_one_unmatched,
           eval_two_unmatched, eval_one_unmatch_pref, eval_two_unmatch_pref,
           evaluator_change_dict, first_result>>

vars == <<evars, mvars>>

----------------------------------------------------------------------------
(* Bounds of the model *)

MaxRows == 2
MaxEdgeDefs == 2
MaxCalls == 2
MaxEdges == 2

----------------------------------------------------------------------------
(* Strings *)

under == "_"
space == " "
dash == "-"

Range(s) == {s[i] : i \in 1..Len(s)}

\* Python `ch in s` for a one-character ch
Contains(s, ch) == \E i \in 1..Len(s) : s[i] = ch

\* Python s.split(sep=ch): the segments between the separators, empty ones kept
RECURSIVE Split(_, _)
Split(s, ch) ==
    IF Len(s) = 0 THEN << <<>> >>
    ELSE LET rest == Split(Tail(s), ch)
         IN  IF Head(s) = ch THEN << <<>> >> \o rest
             ELSE << <<Head(s)>> \o Head(rest) >> \o Tail(rest)

----------------------------------------------------------------------------
(* The data frame *)

HasColumn(d, col) == col \in DOMAIN d.data

NumRows(d) == Len(d.data[d.columns[1]])

\* self.df[col] = vals: overwrite in place, or append as the last column
AssignColumn(d, col, vals) ==
    [columns |-> IF HasColumn(d, col) THEN d.columns ELSE Append(d.columns, col),
     data    |-> [c \in DOMAIN d.data \cup {col} |->
                    IF c = col THEN vals ELSE d.data[c]]]

Ok(d) == [ok |-> TRUE, df |-> d]
Raise(d) == [ok |-> FALSE, df |-> d]

----------------------------------------------------------------------------
(* utils.create_column_values_*: composed row by row *)

create_column_values_under(prefix, first_node_data, second_node_data, suffix) ==
    [i \in 1..Len(first_node_data) |->
        prefix \o <<":">> \o first_node_data[i] \o <<":">>
               \o second_node_data[i] \o suffix]

create_column_values_space(first_node_data, second_node_data) ==
    [i \in 1..Len(first_node_data) |->
        first_node_data[i] \o <<space>> \o second_node_data[i]]

create_column_values_singleton(first_node_data, second_node_data) ==
    [i \in 1..Len(first_node_data) |->
        first_node_data[i] \o <<space>> \o second_node_data[i]]

----------------------------------------------------------------------------
(* Evaluator.add_missing_columns *)

\* the branch `if under in col: if dash in col:`
SynthUnderDash(d, col) ==
    LET col_data_vals == Split(col, under)
        suffix == Split(col_data_vals[Len(col_data_vals)], dash)
    IN  IF ~HasColumn(d, col_data_vals[2]) \/ ~HasColumn(d, suffix[1])
        THEN Raise(d)
        ELSE Ok(AssignColumn(d, col,
                 create_column_values_under(col_data_vals[1],
                     d.data[col_data_vals[2]], d.data[suffix[1]],
                     <<dash>> \o suffix[Len(suffix)])))

\* the branch `if under in col: ... else:`
SynthUnder(d, col) ==
    LET col_data_vals == Split(col, under)
    IN  IF Len(col_data_vals) < 3 THEN Raise(d)
        ELSE IF ~HasColumn(d, col_data_vals[2]) \/ ~HasColumn(d, col_data_vals[3])
        THEN Raise(d)
        ELSE Ok(AssignColumn(d, col,
                 create_column_values_under(col_data_vals[1],
                     d.data[col_data_vals[2]], d.data[col_data_vals[3]],
                     <<>>)))

\* the branch `elif space in col:`
SynthSpace(d, col, root_col_name) ==
    IF Len(d.columns) = 0 \/ ~HasColumn(d, root_col_name) THEN Raise(d)
    ELSE Ok(AssignColumn(d, col,
             create_column_values_space(d.data[d.columns[1]],
                                        d.data[root_col_name])))

\* the final `else:` branch
SynthSingleton(d, col, root_col_name) ==
    IF ~HasColumn(d, root_col_name) THEN Raise(d)
    ELSE LET first_node_data == d.data[root_col_name]
             second_node_data == [count \in 1..Len(first_node_data) |-> col]
         IN  Ok(AssignColumn(d, col,
                 create_column_values_singleton(first_node_data,
                                                second_node_data)))

\* one iteration of `for col in columns_to_create`
SynthesizeColumn(d, col, root_col_name) ==
    IF Contains(col, under)
    THEN IF Contains(col, dash) THEN SynthUnderDash(d, col)
         ELSE SynthUnder(d, col)
    ELSE IF Contains(col, space) THEN SynthSpace(d, col, root_col_name)
    ELSE SynthSingleton(d, col, root_col_name)

\* a bug: the difference taken the wrong way round
MissingColumns_Reversed(tr, d) == Range(d.columns) \ tr.vertices

\* set(get_pattern_graph()).difference(set(self.df.columns))
MissingColumns(tr, d) == tr.vertices \ Range(d.columns)

MinLen(S) == CHOOSE n \in {Len(c) : c \in S} : \A c \in S : n <= Len(c)

\* sorted(list(<set>), key=len): the sort is stable and the list of a set comes
\* in the set's iteration order, so columns of equal length come in any order
RECURSIVE SortedByLen(_)
SortedByLen(S) ==
    IF S = {} THEN {<<>>}
    ELSE UNION {{<<c>> \o rest : rest \in SortedByLen(S \ {c})} :
                c \in {x \in S : Len(x) = MinLen(S)}}

\* the loop of add_missing_columns run to its end over `order`
RECURSIVE RunColumns(_, _, _)
RunColumns(d, order, root_col_name) ==
    IF Len(order) = 0 THEN Ok(d)
    ELSE LET r == SynthesizeColumn(d, Head(order), root_col_name)
         IN  IF r.ok THEN RunColumns(r.df, Tail(order), root_col_name) ELSE r

----------------------------------------------------------------------------
(* The property graph (graph_objects.PropertyDiGraph) *)

NoGraph == [present |-> FALSE, nodes |-> {}, edges |-> {}]

\* PropertyDiGraph(root_attr_columns=...): a graph with no vertex and no edge
EmptyGraph == [present |-> TRUE, nodes |-> {}, edges |-> {}]

Edge(s, t, a) == [source |-> s, target |-> t, edge_attribute |-> a]

\* a bug: the column names, not their cells, become the vertices
EdgeListNodes_ColumnNames(d, source, target) == {source, target}

\* nx.from_pandas_edgelist(df_temp, source, target, ...): one edge per row
EdgeListNodes(d, source, target) ==
    Range(d.data[source]) \cup Range(d.data[target])

EdgeListPairs(d, source, target) ==
    {<<d.data[source][i], d.data[target][i]>> : i \in 1..Len(d.data[source])}

\* add_nodes_from(GraphTemp); add_edges_from(GraphTemp.edges, edge_attribute=edge_type)
AddGraphTemp(g, nodes, pairs, edge_type) ==
    [present |-> TRUE,
     nodes   |-> g.nodes \cup nodes,
     edges   |-> g.edges \cup {Edge(p[1], p[2], edge_type) : p \in pairs}]

\* one iteration of `for index, pair in enumerate(get_pattern_graph_edges())`
CompileEdgeDefinition(d, g, pair, edge_type) ==
    LET d1 == AssignColumn(d, edge_type, [i \in 1..NumRows(d) |-> edge_type])
    IN  IF ~HasColumn(d1, pair[1]) \/ ~HasColumn(d1, pair[2])
        THEN [ok |-> FALSE, df |-> d1, graph |-> g]
        ELSE [ok |-> TRUE, df |-> d1,
              graph |-> AddGraphTemp(g, EdgeListNodes(d1, pair[1], pair[2]),
                                     EdgeListPairs(d1, pair[1], pair[2]),
                                     edge_type)]

----------------------------------------------------------------------------
(* Inputs: schemas and record sets *)

col_root == <<"r">>
col_child == <<"c">>
col_owner == <<"o", " ", "r">>
col_assoc == <<"A", "_", "r", "_", "c">>
col_tag == <<"k", "k", "k", "k", "k">>
col_comp == <<"A", "_", "o", " ", "r", "_", "c">>
col_end == <<"A", "_", "r", "_", "c", "-", "e">>

ColumnNames == {col_root, col_child, col_owner, col_assoc, col_tag,
                col_comp, col_end}

RootNames == {col_root, col_assoc}

RawColumnLists == {<<col_root, col_child>>, <<col_child, col_root>>, <<col_root>>}

\* cell values of the raw columns
CellValues(col) == IF col = col_root THEN {<<"x">>, <<"y">>} ELSE {<<"z">>}

RawTables(cols) ==
    UNION {{t \in [Range(cols) -> [1..n -> {<<"x">>, <<"y">>, <<"z">>}]] :
               \A c \in Range(cols) : \A i \in 1..n : t[c][i] \in CellValues(c)} :
           n \in 1..MaxRows}

RawDataFrames ==
    UNION {{[columns |-> cols, data |-> t] : t \in RawTables(cols)} :
           cols \in RawColumnLists}

label_t == <<"t">>
label_u == <<"u">>

\* an edge definition: 'Pattern Graph Edges'[index] with its
\* 'Pattern Graph Edge Labels'[index].  The second one is labelled like the
\* column "c".  No definition is labelled like one of its own two columns.
EdgeDefinitions ==
    {[pair |-> <<col_root, col_child>>, label |-> label_t],
     [pair |-> <<col_root, col_assoc>>, label |-> col_child],
     [pair |-> <<col_end, col_assoc>>, label |-> label_u],
     [pair |-> <<col_child, col_tag>>, label |-> label_u]}

\* the schemas declare each edge definition once
EdgeLists ==
    UNION {{el \in [1..n -> EdgeDefinitions] :
               \A i, j \in 1..n : i # j => el[i] # el[j]} :
           n \in 1..MaxEdgeDefs}

Translators ==
    {[root |-> r, vertices |-> vs,
      edges |-> [i \in 1..Len(el) |-> el[i].pair],
      labels |-> [i \in 1..Len(el) |-> el[i].label]] :
        r \in RootNames, vs \in SUBSET ColumnNames, el \in EdgeLists}

\* MDTranslator accessors
get_root_node(tr) == tr.root
get_pattern_graph(tr) == tr.vertices
get_pattern_graph_edges(tr) == tr.edges
get_edge_type(tr, index) == tr.labels[index]

----------------------------------------------------------------------------
(* Manager.get_pattern_graph_diff *)

Reverse(s) == [i \in 1..Len(s) |-> s[Len(s) + 1 - i]]

\* list(<set>): the members, in this process's iteration order (hash_order
\* is any order of the edges, the same through one process)
ListOf(S) == SelectSeq(hash_order, LAMBDA e : e \in S)

\* a bug: the common edges are not removed
Unmatched_NoDifference(edge_set_one, edge_set_two) == ListOf(edge_set_one)

\* list(edge_set_one.difference(edge_set_two))
Unmatched(edge_set_one, edge_set_two) == ListOf(edge_set_one \ edge_set_two)

\* the dict edge_attribute -> list of the unmatched edges that carry it
UnmatchMap(unmatched) ==
    [a \in {e.edge_attribute : e \in Range(unmatched)} |->
        SelectSeq(unmatched, LAMBDA e : e.edge_attribute = a)]

\* a bug: every edge is given the empty list of the `if` branch
UnmatchPref_NoCandidates(unmatched, other_map) ==
    [keys  |-> unmatched,
     cands |-> [e \in Range(unmatched) |-> <<>>]]

\* a bug: the other side's group is looked up under some key, not under the
\* edge's own type attribute
UnmatchPref_AnyType(unmatched, other_map) ==
    [keys  |-> unmatched,
     cands |-> [e \in Range(unmatched) |->
                  IF DOMAIN other_map = {} THEN <<>>
                  ELSE other_map[CHOOSE a \in DOMAIN other_map : TRUE]]]

\* the dict edge -> candidate list; its keys come in the order of `unmatched`
UnmatchPref(unmatched, other_map) ==
    [keys  |-> unmatched,
     cands |-> [e \in Range(unmatched) |->
                  IF e.edge_attribute \notin DOMAIN other_map THEN <<>>
                  ELSE other_map[e.edge_attribute]]]

\* utils.match_changes: every key is paired with a candidate no other key has
\* taken, or is a 'no match' when no candidate is left for it.  Which keys go
\* first and which free candidate a key takes is the collaborator's policy.
RECURSIVE Pairing(_, _, _, _)
Pairing(keys, cands, taken, choice) ==
    IF Len(keys) = 0 THEN [matches |-> {}, no_matches |-> <<>>]
    ELSE LET k == Head(keys)
             free == SelectSeq(cands[k], LAMBDA c : c \notin taken)
         IN  IF Len(free) = 0
             THEN LET r == Pairing(Tail(keys), cands, taken, choice)
                  IN  [matches |-> r.matches,
                       no_matches |-> <<k>> \o r.no_matches]
             ELSE LET c == IF choice = "first" THEN free[1] ELSE free[Len(free)]
                      r == Pairing(Tail(keys), cands, taken \cup {c}, choice)
                  IN  [matches |-> r.matches \cup {<<k, c>>},
                       no_matches |-> r.no_matches]

match_changes(change_dict) ==
    Pairing(IF policy.key_order = "forward" THEN change_dict.keys
            ELSE Reverse(change_dict.keys),
            change_dict.cands, {}, policy.choice)

Policies == [key_order : {"forward", "backward"}, choice : {"first", "last"}]

\* a bug: the first run's 'no matches' are not appended
MergeMatches_DropOne(eval_one_matches, eval_two_matches) ==
    [matches    |-> eval_two_matches.matches,
     no_matches |-> eval_two_matches.no_matches]

\* for no_match in eval_one_matches['no matches']:
\*     eval_two_matches['no matches'].append(no_match)
\* and eval_two_matches is the pair's entry of evaluator_change_dict
MergeMatches(eval_one_matches, eval_two_matches) ==
    [matches    |-> eval_two_matches.matches,
     no_matches |-> eval_two_matches.no_matches \o eval_one_matches.no_matches]

PatternGraphDiff(one_pref, two_pref) ==
    MergeMatches(match_changes(one_pref), match_changes(two_pref))

NoResult == [matches |-> {}, no_matches |-> <<>>]
NoPref == [keys |-> <<>>, cands |-> <<>>]

\* edges of the compiled graphs that are compared
vertex_x == <<"x">>
vertex_y == <<"y">>
vertex_z == <<"z">>
vertex_w == <<"w">>

EdgeUniverse ==
    {Edge(vertex_x, vertex_y, <<"t">>), Edge(vertex_x, vertex_z, <<"t">>),
     Edge(vertex_x, vertex_w, <<"t">>), Edge(vertex_x, vertex_y, <<"u">>)}

EdgeSets == {S \in SUBSET EdgeUniverse : Cardinality(S) <= MaxEdges}

RECURSIVE ListOrders(_)
ListOrders(S) ==
    IF S = {} THEN {<<>>}
    ELSE UNION {{<<e>> \o rest : rest \in ListOrders(S \ {e})} : e \in S}

\* the Manager's variables while the Evaluator runs
ManagerIdle ==
    /\ evaluators = <<>>
    /\ hash_order = <<>>
    /\ policy = [key_order |-> "forward", choice |-> "first"]
    /\ mpc = "idle"
    /\ eval_one_unmatched = <<>>
    /\ eval_two_unmatched = <<>>
    /\ eval_one_unmatch_pref = NoPref
    /\ eval_two_unmatch_pref = NoPref
    /\ evaluator_change_dict = NoResult
    /\ first_result = NoResult

----------------------------------------------------------------------------
(* The Evaluator's run: add_missing_columns, then to_property_di_graph *)

\* the Evaluator as constructed: df is the record set as read, under the
\* column names rename_df_columns gives it; no graph yet
EvalInit ==
    /\ translator \in Translators
    /\ df \in RawDataFrames
    /\ raw_df = df
    /\ columns_to_create = <<>>
    /\ col_idx = 0
    /\ pc = "read"
    /\ prop_di_graph = NoGraph
    /\ edge_idx = 0
    /\ calls = 0
    /\ first_graph = NoGraph
    /\ ManagerIdle

\* add_missing_columns, up to the loop
AddMissingColumnsBegin ==
    /\ pc = "read"
    /\ columns_to_create' \in SortedByLen(MissingColumns(translator, df))
    /\ col_idx' = 1
    /\ pc' = "synth"
    /\ UNCHANGED <<translator, df, raw_df, prop_di_graph, edge_idx, calls,
                   first_graph>>
    /\ UNCHANGED mvars

\* one iteration of the loop; a KeyError or IndexError leaves the call
AddMissingColumnsStep ==
    /\ pc = "synth"
    /\ col_idx <= Len(columns_to_create)
    /\ LET r == SynthesizeColumn(df, columns_to_create[col_idx],
                                 get_root_node(translator))
       IN  /\ df' = r.df
           /\ pc' = IF r.ok THEN "synth" ELSE "synth_failed"
           /\ col_idx' = IF r.ok THEN col_idx + 1 ELSE col_idx
    /\ UNCHANGED <<translator, raw_df, columns_to_create, prop_di_graph,
                   edge_idx, calls, first_graph>>
    /\ UNCHANGED mvars

\* the loop is over: add_missing_columns returns
AddMissingColumnsReturn ==
    /\ pc = "synth"
    /\ col_idx > Len(columns_to_create)
    /\ pc' = "synth_done"
    /\ UNCHANGED <<translator, df, raw_df, columns_to_create, col_idx,
                   prop_di_graph, edge_idx, calls, first_graph>>
    /\ UNCHANGED mvars

\* to_property_di_graph, up to the loop: a new graph replaces the old one
ToPropertyDiGraphBegin ==
    /\ pc \in {"synth_done", "compiled"}
    /\ calls < MaxCalls
    /\ prop_di_graph' = EmptyGraph
    /\ edge_idx' = 1
    /\ pc' = "compile"
    /\ UNCHANGED <<translator, df, raw_df, columns_to_create, col_idx, calls,
                   first_graph>>
    /\ UNCHANGED mvars

\* one iteration of the loop; a KeyError leaves the call
ToPropertyDiGraphStep ==
    /\ pc = "compile"
    /\ edge_idx <= Len(get_pattern_graph_edges(translator))
    /\ LET r == CompileEdgeDefinition(df, prop_di_graph,
                    get_pattern_graph_edges(translator)[edge_idx],
                    get_edge_type(translator, edge_idx))
       IN  /\ df' = r.df
           /\ prop_di_graph' = r.graph
           /\ pc' = IF r.ok THEN "compile" ELSE "compile_failed"
           /\ edge_idx' = IF r.ok THEN edge_idx + 1 ELSE edge_idx
    /\ UNCHANGED <<translator, raw_df, columns_to_create, col_idx, calls,
                   first_graph>>
    /\ UNCHANGED mvars

\* the loop is over: to_property_di_graph returns
ToPropertyDiGraphReturn ==
    /\ pc = "compile"
    /\ edge_idx > Len(get_pattern_graph_edges(translator))
    /\ pc' = "compiled"
    /\ calls' = calls + 1
    /\ first_graph' = IF calls = 0 THEN prop_di_graph ELSE first_graph
    /\ UNCHANGED <<translator, df, raw_df, columns_to_create, col_idx,
                   prop_di_graph, edge_idx>>
    /\ UNCHANGED mvars

EvalNext ==
    \/ AddMissingColumnsBegin
    \/ AddMissingColumnsStep
    \/ AddMissingColumnsReturn
    \/ ToPropertyDiGraphBegin
    \/ ToPropertyDiGraphStep
    \/ ToPropertyDiGraphReturn

Spec == EvalInit /\ [][EvalNext]_vars

----------------------------------------------------------------------------
(* The Manager's run: the diff of a pair, then of the same pair the other
   way round *)

\* the Evaluator's variables while the Manager runs
EvaluatorIdle ==
    /\ translator = [root |-> <<>>, vertices |-> {}, edges |-> <<>>,
                     labels |-> <<>>]
    /\ df = [columns |-> <<>>, data |-> <<>>]
    /\ raw_df = df
    /\ columns_to_create = <<>>
    /\ col_idx = 0
    /\ pc = "idle"
    /\ prop_di_graph = NoGraph
    /\ edge_idx = 0
    /\ calls = 0
    /\ first_graph = NoGraph

DiffInit ==
    /\ evaluators \in [1..2 -> EdgeSets]
    /\ hash_order \in ListOrders(EdgeUniverse)
    /\ policy \in Policies
    /\ mpc = "created"
    /\ eval_one_unmatched = <<>>
    /\ eval_two_unmatched = <<>>
    /\ eval_one_unmatch_pref = NoPref
    /\ eval_two_unmatch_pref = NoPref
    /\ evaluator_change_dict = NoResult
    /\ first_result = NoResult
    /\ EvaluatorIdle

\* get_pattern_graph_diff for the pair (evaluators[0], evaluators[1])
GetPatternGraphDiff ==
    /\ mpc \in {"created", "swapped"}
    /\ LET one == Unmatched(evaluators[1], evaluators[2])
           two == Unmatched(evaluators[2], evaluators[1])
           one_pref == UnmatchPref(one, UnmatchMap(two))
           two_pref == UnmatchPref(two, UnmatchMap(one))
       IN  /\ eval_one_unmatched' = one
           /\ eval_two_unmatched' = two
           /\ eval_one_unmatch_pref' = one_pref
           /\ eval_two_unmatch_pref' = two_pref
           /\ evaluator_change_dict' = PatternGraphDiff(one_pref, two_pref)
    /\ mpc' = IF mpc = "created" THEN "returned" ELSE "returned_swapped"
    /\ UNCHANGED <<evaluators, hash_order, policy, first_result>>
    /\ UNCHANGED evars

\* a Manager over the same two files in the other input order
NewManagerSwapped ==
    /\ mpc = "returned"
    /\ evaluators' = <<evaluators[2], evaluators[1]>>
    /\ first_result' = evaluator_change_dict
    /\ mpc' = "swapped"
    /\ eval_one_unmatched' = <<>>
    /\ eval_two_unmatched' = <<>>
    /\ eval_one_unmatch_pref' = NoPref
    /\ eval_two_unmatch_pref' = NoPref
    /\ evaluator_change_dict' = NoResult
    /\ UNCHANGED <<hash_order, policy>>
    /\ UNCHANGED evars

DiffNext ==
    \/ GetPatternGraphDiff
    \/ NewManagerSwapped

DiffSpec == DiffInit /\ [][DiffNext]_vars

----------------------------------------------------------------------------
(* Properties of the Evaluator, checked under Spec *)

AllCells(d) == UNION {Range(d.data[c]) : c \in DOMAIN d.data}

SynthReturned == pc \in {"synth_done", "compile", "compiled", "compile_failed"}

\* C1: once add_missing_columns has returned without error, every column of
\* the schema's 'Pattern Graph Vertices' is a column of the record set and has
\* a cell on every row.
C1_RequiredColumnsPresent ==
    SynthReturned =>
        \A c \in get_pattern_graph(translator) :
            /\ c \in Range(df.columns)
            /\ HasColumn(df, c)
            /\ Len(df.data[c]) = NumRows(raw_df)

\* add_missing_columns has returned after synthesizing two or more columns of
\* a record set of two rows
C1_Witness ==
    /\ pc = "synth_done"
    /\ Len(columns_to_create) >= 2
    /\ NumRows(raw_df) >= 2

\* C4 as claimed: after a failed add_missing_columns or to_property_di_graph,
\* prop_di_graph holds no graph made of the edges of only some of the edge
\* definitions.
C4_NoPartialGraph ==
    pc \in {"synth_failed", "compile_failed"} =>
        ~ /\ prop_di_graph.present
          /\ prop_di_graph.edges # {}
          /\ edge_idx <= Len(get_pattern_graph_edges(translator))

\* C5 as claimed: a second call of to_property_di_graph in a row yields the
\* vertex set and the edge set of the first.
C5_CompileIdempotent ==
    (pc = "compiled" /\ calls >= 2) =>
        /\ prop_di_graph.nodes = first_graph.nodes
        /\ prop_di_graph.edges = first_graph.edges

\* C9 as claimed: every vertex of a graph to_property_di_graph builds is a
\* cell value of the raw record set.
C9_VerticesAreRawCells ==
    prop_di_graph.present => prop_di_graph.nodes \subseteq AllCells(raw_df)

\* the record set as add_missing_columns completes it
CompletedFrame ==
    RunColumns(raw_df, columns_to_create, get_root_node(translator)).df

\* C9 amended: every vertex of a graph to_property_di_graph builds is a cell
\* value of the record set as add_missing_columns completed it (a raw cell or
\* a synthesized one), or an edge-type label that to_property_di_graph wrote
\* into the column of that name.
C9_VerticesAreCompletedCells ==
    prop_di_graph.present =>
        prop_di_graph.nodes \subseteq
            AllCells(CompletedFrame) \cup Range(translator.labels)

\* a compiled graph has a vertex that is a synthesized value, not a raw cell
C9_Witness ==
    /\ pc = "compiled"
    /\ \E v \in prop_di_graph.nodes :
          /\ v \notin AllCells(raw_df)
          /\ v \notin Range(translator.labels)

\* C10 as claimed: in whatever order the missing columns of equal name length
\* are processed, add_missing_columns ends the same way and with the same
\* synthesized columns.
C10_TieOrderIrrelevant ==
    pc \in {"synth_done", "synth_failed"} =>
        \A order \in SortedByLen(MissingColumns(translator, raw_df)) :
            LET r == RunColumns(raw_df, order, get_root_node(translator))
            IN  /\ r.ok = (pc = "synth_done")
                /\ r.ok => r.df.data = df.data

----------------------------------------------------------------------------
(* Properties of the Manager, checked under DiffSpec *)

Returned == mpc \in {"returned", "returned_swapped"}

MatchedEdges(r) == UNION {{p[1], p[2]} : p \in r.matches}
NoMatchEdges(r) == Range(r.no_matches)

UnmatchedEdges == Range(eval_one_unmatched) \cup Range(eval_two_unmatched)

\* C2 as claimed: the Match Result is a partition of the unmatched edges of
\* both graphs: each is in exactly one of 'matches' and 'no matches', none
\* twice, and the buckets hold nothing else.
C2_TwoWayPartition ==
    Returned =>
        LET r == evaluator_change_dict
        IN  /\ \A e \in UnmatchedEdges :
                  (e \in MatchedEdges(r)) # (e \in NoMatchEdges(r))
            /\ \A i, j \in 1..Len(r.no_matches) :
                  i # j => r.no_matches[i] # r.no_matches[j]
            /\ \A p, q \in r.matches :
                  p # q => {p[1], p[2]} \cap {q[1], q[2]} = {}
            /\ MatchedEdges(r) \cup NoMatchEdges(r) \subseteq UnmatchedEdges

\* C3: the pair diffed in the input order (A, B) and in the input order (B, A)
\* has the same set of 'no matches' edges.
C3_NoMatchesSymmetric ==
    mpc = "returned_swapped" =>
        NoMatchEdges(evaluator_change_dict) = NoMatchEdges(first_result)

\* both orders are diffed, with matched pairs and with 'no matches' that come
\* from one graph only
C3_Witness ==
    /\ mpc = "returned_swapped"
    /\ evaluator_change_dict.matches # {}
    /\ NoMatchEdges(evaluator_change_dict) # {}
    /\ NoMatchEdges(evaluator_change_dict) \subseteq evaluators[2]

\* C6: a pair of identical edge sets has an empty 'matches' bucket and an
\* empty 'no matches' bucket.
C6_IdenticalSetsEmptyResult ==
    (Returned /\ evaluators[1] = evaluators[2]) =>
        /\ evaluator_change_dict.matches = {}
        /\ evaluator_change_dict.no_matches = <<>>

\* two identical edge sets of two edges have been diffed
C6_Witness ==
    /\ Returned
    /\ evaluators[1] = evaluators[2]
    /\ Cardinality(evaluators[1]) >= 2

SoleSameTyped ==
    /\ Len(eval_one_unmatched) = 1
    /\ Len(eval_two_unmatched) = 1
    /\ eval_one_unmatched[1].edge_attribute
           = eval_two_unmatched[1].edge_attribute

\* C7: one unmatched edge on each side, of the same type attribute: each is
\* the other's only candidate, and the Match Result is that one pair with no
\* 'no matches'.
C7_SolePairIsRename ==
    (Returned /\ SoleSameTyped) =>
        LET a == eval_one_unmatched[1]
            b == eval_two_unmatched[1]
        IN  /\ eval_one_unmatch_pref.cands[a] = <<b>>
            /\ eval_two_unmatch_pref.cands[b] = <<a>>
            /\ evaluator_change_dict.matches = {<<b, a>>}
            /\ evaluator_change_dict.no_matches = <<>>

\* such a pair has been diffed, the two graphs sharing a further edge
C7_Witness ==
    /\ Returned
    /\ SoleSameTyped
    /\ evaluators[1] \cap evaluators[2] # {}

TypeAbsent(e, other_unmatched) ==
    \A f \in Range(other_unmatched) : f.edge_attribute # e.edge_attribute

\* C8: an unmatched edge whose type attribute no unmatched edge of the other
\* graph carries has an empty candidate list and is in 'no matches'; for the
\* edges of the first graph and for those of the second.
C8_LoneTypeIsNoMatch ==
    Returned =>
        /\ \A e \in Range(eval_one_unmatched) :
              TypeAbsent(e, eval_two_unmatched) =>
                  /\ eval_one_unmatch_pref.cands[e] = <<>>
                  /\ e \in NoMatchEdges(evaluator_change_dict)
        /\ \A e \in Range(eval_two_unmatched) :
              TypeAbsent(e, eval_one_unmatched) =>
                  /\ eval_two_unmatch_pref.cands[e] = <<>>
                  /\ e \in NoMatchEdges(evaluator_change_dict)

\* an edge of the first graph and an edge of the second, each of a type the
\* other side's unmatched edges do not carry
C8_Witness ==
    /\ Returned
    /\ \E e \in Range(eval_one_unmatched) : TypeAbsent(e, eval_two_unmatched)
    /\ \E e \in Range(eval_two_unmatched) : TypeAbsent(e, eval_one_unmatched)

====
